---- MODULE Spec2Model ----
(***************************************************************************)
(* Model of the Compound wallet risk scoring core:                         *)
(*   feature_extractor.py (FeatureExtractor) and risk_scorer.py            *)
(*   (RiskScorer), driven as main.py drives them.                          *)
(*                                                                         *)
(* Python floats are IEEE-754 binary64.  Where the code computes with      *)
(* floats the model computes with the same roundings: a float is a sign,   *)
(* an exponent and a natural-number significand of at most 53 bits, and    *)
(* every operation rounds its exact result to nearest, ties to even.       *)
(* Significands exceed the 32-bit integers of TLC, so naturals are         *)
(* kept as little-endian sequences of limbs (base 2^15).                   *)
(***************************************************************************)
EXTENDS Integers, Sequences, FiniteSets, TLC

\* what a result is before the call that sets it
None == "None"

(***************************************************************************)
(* Naturals of arbitrary size: little-endian limbs, no leading zero limb.  *)
(***************************************************************************)
LimbBits == 15
LimbBase == 2^15

RECURSIVE BNorm(_)
BNorm(a) ==
    IF a = <<>> THEN <<>>
    ELSE IF a[Len(a)] = 0 THEN BNorm(SubSeq(a, 1, Len(a) - 1))
    ELSE a

RECURSIVE BFromInt(_)
BFromInt(n) ==
    IF n = 0 THEN <<>>
    ELSE <<n % LimbBase>> \o BFromInt(n \div LimbBase)

RECURSIVE BToInt(_)
BToInt(a) ==
    IF a = <<>> THEN 0
    ELSE a[1] + LimbBase * BToInt(Tail(a))

Limb(a, i) == IF i <= Len(a) THEN a[i] ELSE 0

MaxOf(x, y) == IF x >= y THEN x ELSE y
MinOf(x, y) == IF x <= y THEN x ELSE y

RECURSIVE BAddFrom(_, _, _, _)
BAddFrom(a, b, i, carry) ==
    IF i > MaxOf(Len(a), Len(b))
    THEN (IF carry = 0 THEN <<>> ELSE <<carry>>)
    ELSE LET t == Limb(a, i) + Limb(b, i) + carry
         IN  <<t % LimbBase>> \o BAddFrom(a, b, i + 1, t \div LimbBase)

BAdd(a, b) == BAddFrom(a, b, 1, 0)

\* a - b for a >= b
RECURSIVE BSubFrom(_, _, _, _)
BSubFrom(a, b, i, borrow) ==
    IF i > Len(a) THEN <<>>
    ELSE LET t == Limb(a, i) - Limb(b, i) - borrow
         IN  IF t < 0
             THEN <<t + LimbBase>> \o BSubFrom(a, b, i + 1, 1)
             ELSE <<t>> \o BSubFrom(a, b, i + 1, 0)

BSub(a, b) == BNorm(BSubFrom(a, b, 1, 0))

\* -1, 0, 1 as a < b, a = b, a > b
RECURSIVE BCmpFrom(_, _, _)
BCmpFrom(a, b, i) ==
    IF i = 0 THEN 0
    ELSE IF a[i] < b[i] THEN -1
    ELSE IF a[i] > b[i] THEN 1
    ELSE BCmpFrom(a, b, i - 1)

BCmp(a, b) ==
    IF Len(a) < Len(b) THEN -1
    ELSE IF Len(a) > Len(b) THEN 1
    ELSE BCmpFrom(a, b, Len(a))

\* a * c for 0 <= c < 2^15
RECURSIVE BMulSmallFrom(_, _, _, _)
BMulSmallFrom(a, c, i, carry) ==
    IF i > Len(a)
    THEN (IF carry = 0 THEN <<>> ELSE <<carry>>)
    ELSE LET t == a[i] * c + carry
         IN  <<t % LimbBase>> \o BMulSmallFrom(a, c, i + 1, t \div LimbBase)

BMulSmall(a, c) == IF c = 0 THEN <<>> ELSE BMulSmallFrom(a, c, 1, 0)

\* <<quotient, remainder>> of a by d, 0 < d <= 2^15, most significant limb first
RECURSIVE BDivSmallFrom(_, _, _, _)
BDivSmallFrom(a, d, i, rem) ==
    IF i = 0 THEN <<<<>>, rem>>
    ELSE LET t    == rem * LimbBase + a[i]
             rest == BDivSmallFrom(a, d, i - 1, t % d)
         IN  <<Append(rest[1], t \div d), rest[2]>>

\* <<quotient, remainder>> with the quotient's leading zero limbs dropped
NormQuot(qr) == <<BNorm(qr[1]), qr[2]>>

BDivSmall(a, d) == NormQuot(BDivSmallFrom(a, d, Len(a), 0))

Zeros(n) == [i \in 1..n |-> 0]

\* a * 2^n
BShl(a, n) ==
    IF a = <<>> THEN <<>>
    ELSE Zeros(n \div LimbBits) \o BMulSmall(a, 2^(n % LimbBits))

\* floor(a / 2^n)
BShr(a, n) ==
    LET k == n \div LimbBits
    IN  IF k >= Len(a) THEN <<>>
        ELSE BDivSmall(SubSeq(a, k + 1, Len(a)), 2^(n % LimbBits))[1]

RECURSIVE IntBitLen(_)
IntBitLen(n) == IF n = 0 THEN 0 ELSE 1 + IntBitLen(n \div 2)

BBitLen(a) ==
    IF a = <<>> THEN 0
    ELSE LimbBits * (Len(a) - 1) + IntBitLen(a[Len(a)])

\* a * b (schoolbook, one limb of b at a time)
RECURSIVE BMulFrom(_, _, _)
BMulFrom(a, b, i) ==
    IF i > Len(b) THEN <<>>
    ELSE BAdd(Zeros(i - 1) \o BMulSmall(a, b[i]), BMulFrom(a, b, i + 1))

BMul(a, b) == IF a = <<>> \/ b = <<>> THEN <<>> ELSE BNorm(BMulFrom(a, b, 1))

\* the largest q in lo..hi with d * q <= cur, by bisection
RECURSIVE LimbQuot(_, _, _, _)
LimbQuot(cur, d, lo, hi) ==
    IF lo = hi THEN lo
    ELSE LET mid == (lo + hi + 1) \div 2
         IN  IF BCmp(BMulSmall(d, mid), cur) <= 0
             THEN LimbQuot(cur, d, mid, hi)
             ELSE LimbQuot(cur, d, lo, mid - 1)

\* cur >= d without the limbs below the top limb of d
TopLimbs(cur, n) == IF Len(cur) > n THEN cur[n + 1] * LimbBase + cur[n] ELSE cur[n]

\* the quotient of cur by d lies between the quotients of the top limbs by
\* the top limb of d, rounded up and rounded down
QuotLow(cur, d)  == TopLimbs(cur, Len(d)) \div (d[Len(d)] + 1)
QuotHigh(cur, d) == MinOf(LimbBase - 1, TopLimbs(cur, Len(d)) \div d[Len(d)])

\* <<quotient, remainder>> of a by d # 0, one limb of a at a time from the
\* top; quot holds the limbs of the quotient above position i
RECURSIVE BDivLimbs(_, _, _, _, _)

DivBy(a, d, i, quot, cur, q) ==
    BDivLimbs(a, d, i - 1, <<q>> \o quot, BSub(cur, BMulSmall(d, q)))

DivLimb(a, d, i, quot, cur) ==
    IF BCmp(cur, d) < 0 THEN BDivLimbs(a, d, i - 1, <<0>> \o quot, cur)
    ELSE DivBy(a, d, i, quot, cur, LimbQuot(cur, d, QuotLow(cur, d), QuotHigh(cur, d)))

BDivLimbs(a, d, i, quot, rem) ==
    IF i = 0 THEN <<quot, rem>>
    ELSE DivLimb(a, d, i, quot, BNorm(<<a[i]>> \o rem))

\* the remainder of a division by one limb, as limbs
LimbRem(qr) == <<qr[1], BFromInt(qr[2])>>

BDivMod(a, d) ==
    IF Len(d) = 1 THEN LimbRem(BDivSmall(a, d[1]))
    ELSE NormQuot(BDivLimbs(a, d, Len(a), <<>>, <<>>))

(***************************************************************************)
(* binary64: value = sgn * m * 2^e, m a natural of at most Precision bits  *)
(* (or the power of two just above).  Exponent range is not modelled: no   *)
(* value of the program comes near overflow or the subnormals.             *)
(***************************************************************************)
Precision == 53

Float(sgn, m, e) == [sgn |-> IF m = <<>> THEN 1 ELSE sgn, m |-> m, e |-> IF m = <<>> THEN 0 ELSE e]

\* q2 is the significand kept with one bit more than Precision (the half
\* bit); sticky says that a non-zero bit was dropped below it.  The kept
\* significand goes up when the dropped part is above half, or is half and
\* the kept significand is odd.
RoundsUp(q2, sticky) == q2[1] % 2 = 1 /\ (sticky \/ q2[1] % 4 = 3)

RoundHalf(sgn, m, q2, e, j) ==
    Float(sgn,
          BShr(BAdd(q2, IF RoundsUp(q2, BShl(q2, j - 1) # m) THEN <<1>> ELSE <<>>), 1),
          e + j)

\* round sgn * m * 2^e where m has j bits more than Precision
RoundTo(sgn, m, e, j) ==
    IF j <= 0 THEN Float(sgn, m, e)
    ELSE RoundHalf(sgn, m, BShr(m, j - 1), e, j)

\* round sgn * m * 2^e to nearest, ties to even
FRound(sgn, m, e) == RoundTo(sgn, m, e, BBitLen(m) - Precision)

\* int -> float (exact below 2^53)
FromInt(n) == IF n >= 0 THEN Float(1, BFromInt(n), 0) ELSE Float(-1, BFromInt(-n), 0)

FNeg(x) == Float(-x.sgn, x.m, x.e)

FMul(x, y) == FRound(x.sgn * y.sgn, BMul(x.m, y.m), x.e + y.e)

\* the significands of x and y over their common (smaller) exponent
AlignedM(x, y) == BShl(x.m, x.e - MinOf(x.e, y.e))

\* -1, 0, 1 as x < y, x = y, x > y
FCmp(x, y) ==
    IF x.m = <<>> /\ y.m = <<>> THEN 0
    ELSE IF x.m = <<>> THEN -y.sgn
    ELSE IF y.m = <<>> THEN x.sgn
    ELSE IF x.sgn # y.sgn THEN x.sgn
    ELSE x.sgn * BCmp(AlignedM(x, y), AlignedM(y, x))

FLe(x, y) == FCmp(x, y) <= 0
FLt(x, y) == FCmp(x, y) < 0
FGe(x, y) == FCmp(x, y) >= 0
FGt(x, y) == FCmp(x, y) > 0
FEq(x, y) == FCmp(x, y) = 0

\* sx * mx * 2^e + sy * my * 2^e, exact, then rounded
AddAligned(sx, mx, sy, my, e) ==
    FRound(IF sx = sy \/ BCmp(mx, my) >= 0 THEN sx ELSE sy,
           IF sx = sy THEN BAdd(mx, my)
           ELSE IF BCmp(mx, my) >= 0 THEN BSub(mx, my)
           ELSE BSub(my, mx),
           e)

FAdd(x, y) ==
    IF x.m = <<>> THEN y
    ELSE IF y.m = <<>> THEN x
    ELSE AddAligned(x.sgn, AlignedM(x, y), y.sgn, AlignedM(y, x), MinOf(x.e, y.e))

FSub(x, y) == FAdd(x, FNeg(y))

\* x / y, y # 0: quotient of the significands to Precision + 2 bits or more,
\* a last bit recording a non-zero remainder, then rounded
StickyQuot(qr) == BAdd(BMulSmall(qr[1], 2), IF qr[2] = <<>> THEN <<>> ELSE <<1>>)

DivScaled(x, y, k) ==
    FRound(x.sgn * y.sgn, StickyQuot(BDivMod(BShl(x.m, k), y.m)), x.e - y.e - k - 1)

FDiv(x, y) ==
    IF x.m = <<>> THEN x
    ELSE DivScaled(x, y, MaxOf(0, BBitLen(y.m) + Precision + 2 - BBitLen(x.m)))

\* int(x): truncation toward zero
FTrunc(x) ==
    x.sgn * BToInt(IF x.e >= 0 THEN BShl(x.m, x.e) ELSE BShr(x.m, -x.e))

\* the decimal literals of the source with at most two places, converted once
DecimalLiterals == [n \in 0..200, d \in {10, 100} |-> FDiv(FromInt(n), FromInt(d))]

\* the float written as the decimal literal n / d
Dec(n, d) ==
    IF <<n, d>> \in DOMAIN DecimalLiterals THEN DecimalLiterals[n, d]
    ELSE FDiv(FromInt(n), FromInt(d))

(***************************************************************************)
(* config.py                                                               *)
(***************************************************************************)
\* a slip in the table: the two heaviest weights exchanged
RISK_WEIGHTS_Exchanged ==
    [borrow_supply_ratio  |-> Dec(20, 100),
     liquidation_count    |-> Dec(25, 100),
     inactivity_days      |-> Dec(15, 100),
     repayment_frequency  |-> Dec(15, 100),
     volatile_asset_usage |-> Dec(10, 100),
     protocol_version     |-> Dec(10, 100),
     collateral_factor    |-> Dec(5, 100)]

RISK_WEIGHTS ==
    [borrow_supply_ratio  |-> Dec(25, 100),
     liquidation_count    |-> Dec(20, 100),
     inactivity_days      |-> Dec(15, 100),
     repayment_frequency  |-> Dec(15, 100),
     volatile_asset_usage |-> Dec(10, 100),
     protocol_version     |-> Dec(10, 100),
     collateral_factor    |-> Dec(5, 100)]

\* the order in which risk_components is built and iterated
ComponentOrder ==
    <<"borrow_supply_ratio", "liquidation_count", "inactivity_days",
      "repayment_frequency", "volatile_asset_usage", "protocol_version",
      "collateral_factor">>

(***************************************************************************)
(* risk_scorer.py: RiskScorer                                              *)
(* A feature record is a function from field names to values; a missing   *)
(* field is a name outside its domain.  Numbers are floats.                *)
(***************************************************************************)
\* dict.get(key, default)
Get(d, key, default) == IF key \in DOMAIN d THEN d[key] ELSE default

\* a slip: strict comparisons, so a ratio on a threshold falls one step down
ScoreBorrowSupplyRatioStrict(features) ==
    LET ratio == Get(features, "supply_to_borrow_ratio", FromInt(0))
    IN  IF FEq(ratio, FromInt(0)) THEN 0
        ELSE IF FLt(ratio, Dec(3, 10)) THEN 100
        ELSE IF FLt(ratio, Dec(5, 10)) THEN 50
        ELSE IF FLt(ratio, Dec(7, 10)) THEN 0
        ELSE IF FLt(ratio, Dec(9, 10)) THEN -50
        ELSE -100

_score_borrow_supply_ratio(features) ==
    LET ratio == Get(features, "supply_to_borrow_ratio", FromInt(0))
    IN  IF FEq(ratio, FromInt(0)) THEN 0
        ELSE IF FLe(ratio, Dec(3, 10)) THEN 100
        ELSE IF FLe(ratio, Dec(5, 10)) THEN 50
        ELSE IF FLe(ratio, Dec(7, 10)) THEN 0
        ELSE IF FLe(ratio, Dec(9, 10)) THEN -50
        ELSE -100

\* a slip: a steeper last step of the liquidation table
ScoreLiquidationCountSteeper(features) ==
    LET liquidations == Get(features, "number_of_liquidations", FromInt(0))
    IN  IF FEq(liquidations, FromInt(0)) THEN 50
        ELSE IF FEq(liquidations, FromInt(1)) THEN -25
        ELSE IF FEq(liquidations, FromInt(2)) THEN -50
        ELSE IF FLe(liquidations, FromInt(5)) THEN -75
        ELSE -200

_score_liquidation_count(features) ==
    LET liquidations == Get(features, "number_of_liquidations", FromInt(0))
    IN  IF FEq(liquidations, FromInt(0)) THEN 50
        ELSE IF FEq(liquidations, FromInt(1)) THEN -25
        ELSE IF FEq(liquidations, FromInt(2)) THEN -50
        ELSE IF FLe(liquidations, FromInt(5)) THEN -75
        ELSE -100

_score_inactivity_days(features) ==
    LET inactivity_days == Get(features, "days_since_last_activity", FromInt(365))
    IN  IF FLe(inactivity_days, FromInt(7)) THEN 50
        ELSE IF FLe(inactivity_days, FromInt(30)) THEN 25
        ELSE IF FLe(inactivity_days, FromInt(90)) THEN 0
        ELSE IF FLe(inactivity_days, FromInt(180)) THEN -25
        ELSE -50

_score_repayment_frequency(features) ==
    LET frequency == Get(features, "repayment_frequency", FromInt(0))
    IN  IF FGe(frequency, FromInt(2)) THEN 50
        ELSE IF FGe(frequency, FromInt(1)) THEN 25
        ELSE IF FGe(frequency, Dec(5, 10)) THEN 0
        ELSE IF FGt(frequency, FromInt(0)) THEN -25
        ELSE -50

_score_volatile_asset_usage(features) ==
    LET volatile_usage == Get(features, "volatile_asset_usage", FromInt(0))
    IN  IF FLe(volatile_usage, Dec(1, 10)) THEN 50
        ELSE IF FLe(volatile_usage, Dec(3, 10)) THEN 25
        ELSE IF FLe(volatile_usage, Dec(5, 10)) THEN 0
        ELSE IF FLe(volatile_usage, Dec(7, 10)) THEN -25
        ELSE -50

_score_protocol_version(features) ==
    LET version == Get(features, "protocol_version_usage", "none")
    IN  IF version = "v3" THEN 25
        ELSE IF version = "v2" THEN 0
        ELSE IF version = "none" THEN -25
        ELSE 0

_score_collateral_factor(features) ==
    LET collateral_factor == Get(features, "collateral_factor_average", FromInt(0))
    IN  IF FGe(collateral_factor, Dec(8, 10)) THEN 25
        ELSE IF FGe(collateral_factor, Dec(6, 10)) THEN 0
        ELSE IF FGe(collateral_factor, Dec(4, 10)) THEN -25
        ELSE -50

\* the risk_components dict of calculate_risk_score
RiskComponents(features) ==
    [borrow_supply_ratio  |-> _score_borrow_supply_ratio(features),
     liquidation_count    |-> _score_liquidation_count(features),
     inactivity_days      |-> _score_inactivity_days(features),
     repayment_frequency  |-> _score_repayment_frequency(features),
     volatile_asset_usage |-> _score_volatile_asset_usage(features),
     protocol_version     |-> _score_protocol_version(features),
     collateral_factor    |-> _score_collateral_factor(features)]

\* the loop "weighted_score += score * weight" over components i..7,
\* starting from the float acc (the int 0 before the first component)
RECURSIVE WeightedFrom(_, _, _, _)
WeightedFrom(components, wts, i, acc) ==
    IF i > Len(ComponentOrder) THEN acc
    ELSE LET component == ComponentOrder[i]
             weight    == Get(wts, component, FromInt(0))
         IN  WeightedFrom(components, wts, i + 1,
                          FAdd(acc, FMul(FromInt(components[component]), weight)))

WeightedScore(components, wts) == WeightedFrom(components, wts, 1, FromInt(0))

\* max(0, min(1000, final_score))
Clamp(final_score) ==
    LET upper == IF FLt(final_score, FromInt(1000)) THEN final_score ELSE FromInt(1000)
    IN  IF FGt(upper, FromInt(0)) THEN upper ELSE FromInt(0)

\* a slip a refactoring could make: the weighted sum is returned instead of
\* the clamped final score
FinalScoreReturnsWeighted(components, wts) ==
    FTrunc(WeightedScore(components, wts))

\* calculate_risk_score from "Apply weighted scoring" on
FinalScore(components, wts) ==
    LET base_score     == FromInt(500)
        weighted_score == WeightedScore(components, wts)
        final_score    == FAdd(base_score, weighted_score)
    IN  FTrunc(Clamp(final_score))

calculate_risk_score(features, wts) == FinalScore(RiskComponents(features), wts)

\* a slip: strict comparisons, so a score on a threshold falls one label down
GetRiskCategoryStrict(s) ==
    IF s > 800 THEN "Very Low Risk"
    ELSE IF s > 600 THEN "Low Risk"
    ELSE IF s > 400 THEN "Moderate Risk"
    ELSE IF s > 200 THEN "High Risk"
    ELSE "Very High Risk"

\* a slip: the five labels cut at even fifths of the mid-range instead of
\* 200/400/600/800
GetRiskCategoryOtherCuts(s) ==
    IF s >= 700 THEN "Very Low Risk"
    ELSE IF s >= 500 THEN "Low Risk"
    ELSE IF s >= 300 THEN "Moderate Risk"
    ELSE IF s >= 100 THEN "High Risk"
    ELSE "Very High Risk"

get_risk_category(s) ==
    IF s >= 800 THEN "Very Low Risk"
    ELSE IF s >= 600 THEN "Low Risk"
    ELSE IF s >= 400 THEN "Moderate Risk"
    ELSE IF s >= 200 THEN "High Risk"
    ELSE "Very High Risk"

\* the smallest and the largest of a non-empty sequence of ints
RECURSIVE SeqMin(_)
SeqMin(xs) == IF Len(xs) = 1 THEN xs[1] ELSE MinOf(xs[1], SeqMin(Tail(xs)))

RECURSIVE SeqMax(_)
SeqMax(xs) == IF Len(xs) = 1 THEN xs[1] ELSE MaxOf(xs[1], SeqMax(Tail(xs)))

\* scores_df['score'].values
ScoreColumn(df) == [i \in DOMAIN df |-> df[i].score]

\* 10 * machine epsilon: below it MinMaxScaler takes a range for constant
TenEps == Float(1, <<10>>, -52)

\* MinMaxScaler: a range that is (nearly) zero is replaced by 1.0
HandleZerosInScale(data_range) ==
    IF FLt(data_range, TenEps) THEN FromInt(1) ELSE data_range

UnfittedScaler == [fitted |-> FALSE]

\* a fit on the fixed scale 0 .. 1000, whatever the column holds
MinMaxFitFixedScale(column) ==
    LET data_min   == FromInt(0)
        data_max   == FromInt(1000)
        data_range == FSub(data_max, data_min)
        scale_     == FDiv(FromInt(1 - 0), HandleZerosInScale(data_range))
        min_       == FSub(FromInt(0), FMul(data_min, scale_))
    IN  [fitted |-> TRUE, data_min_ |-> data_min, data_max_ |-> data_max,
         data_range_ |-> data_range, scale_ |-> scale_, min_ |-> min_]

\* MinMaxScaler().fit on one column, feature_range (0, 1)
MinMaxFit(column) ==
    LET data_min   == FromInt(SeqMin(column))
        data_max   == FromInt(SeqMax(column))
        data_range == FSub(data_max, data_min)
        scale_     == FDiv(FromInt(1 - 0), HandleZerosInScale(data_range))
        min_       == FSub(FromInt(0), FMul(data_min, scale_))
    IN  [fitted |-> TRUE, data_min_ |-> data_min, data_max_ |-> data_max,
         data_range_ |-> data_range, scale_ |-> scale_, min_ |-> min_]

\* a slip: the values are scaled but not shifted by min_
MinMaxTransformUnshifted(fit, x) == FMul(x, fit.scale_)

\* MinMaxScaler.transform of one value: X *= scale_; X += min_
MinMaxTransform(fit, x) == FAdd(FMul(x, fit.scale_), fit.min_)

\* (fit_transform(scores) * 1000).astype(int)
NormalizedColumn(fit, column) ==
    [i \in DOMAIN column |->
        FTrunc(FMul(MinMaxTransform(fit, FromInt(column[i])), FromInt(1000)))]

\* score_all_wallets: one {wallet_id, score} record per row, in row order
score_all_wallets(features_df, wts) ==
    [i \in DOMAIN features_df |->
        [wallet_id |-> features_df[i].wallet_id,
         score     |-> calculate_risk_score(features_df[i], wts)]]

\* the ints xs in ascending order (np.median sorts a copy)
RECURSIVE InsertSorted(_, _)
InsertSorted(x, sorted) ==
    IF sorted = <<>> THEN <<x>>
    ELSE IF x <= sorted[1] THEN <<x>> \o sorted
    ELSE <<sorted[1]>> \o InsertSorted(x, Tail(sorted))

RECURSIVE SortedInts(_)
SortedInts(xs) == IF xs = <<>> THEN <<>> ELSE InsertSorted(xs[1], SortedInts(Tail(xs)))

RECURSIVE SumInts(_)
SumInts(xs) == IF xs = <<>> THEN 0 ELSE xs[1] + SumInts(Tail(xs))

\* np.mean of an int column: the sum is exact, the division rounds
Mean(xs) == FDiv(FromInt(SumInts(xs)), FromInt(Len(xs)))

\* the middle of the sorted column, the mean of the two middles when the
\* length is even
MedianOfSorted(sorted, n) ==
    IF n % 2 = 1 THEN FromInt(sorted[(n + 1) \div 2])
    ELSE FDiv(FromInt(sorted[n \div 2] + sorted[n \div 2 + 1]), FromInt(2))

Median(xs) == MedianOfSorted(SortedInts(xs), Len(xs))

\* len(scores[scores >= lo]), len(scores[(scores >= lo) & (scores < hi)]),
\* len(scores[scores < hi])
CountAtLeast(scores, lo) == Cardinality({i \in DOMAIN scores : scores[i] >= lo})
CountBetween(scores, lo, hi) ==
    Cardinality({i \in DOMAIN scores : scores[i] >= lo /\ scores[i] < hi})
CountBelow(scores, hi) == Cardinality({i \in DOMAIN scores : scores[i] < hi})

\* a slip: the buckets cut strictly above the thresholds, so a score on a
\* threshold is counted one bucket below its category
RiskDistributionStrict(scores) ==
    [l \in {"Very Low Risk", "Low Risk", "Moderate Risk", "High Risk", "Very High Risk"} |->
        CASE l = "Very Low Risk"  -> CountAtLeast(scores, 801)
          [] l = "Low Risk"       -> CountBetween(scores, 601, 801)
          [] l = "Moderate Risk"  -> CountBetween(scores, 401, 601)
          [] l = "High Risk"      -> CountBetween(scores, 201, 401)
          [] l = "Very High Risk" -> CountBelow(scores, 201)]

\* summary['risk_distribution']
RiskDistribution(scores) ==
    [l \in {"Very Low Risk", "Low Risk", "Moderate Risk", "High Risk", "Very High Risk"} |->
        CASE l = "Very Low Risk"  -> CountAtLeast(scores, 800)
          [] l = "Low Risk"       -> CountBetween(scores, 600, 800)
          [] l = "Moderate Risk"  -> CountBetween(scores, 400, 600)
          [] l = "High Risk"      -> CountBetween(scores, 200, 400)
          [] l = "Very High Risk" -> CountBelow(scores, 200)]

\* the dict {} that generate_risk_summary returns for an empty frame
EmptyDict == <<>>

\* the summary dict of a non-empty score column.  std_score, a square
\* root, is not computed here: the dict is modelled without that key.
SummaryOf(scores) ==
    [total_wallets     |-> Len(scores),
     average_score     |-> Mean(scores),
     median_score      |-> Median(scores),
     min_score         |-> SeqMin(scores),
     max_score         |-> SeqMax(scores),
     risk_distribution |-> RiskDistribution(scores)]

\* a slip: the emptiness test is lost and an empty frame gets a dict of
\* zero counts
SummaryWithoutEmptyTest(scores_df) ==
    IF scores_df = <<>>
    THEN [total_wallets |-> 0, risk_distribution |-> RiskDistribution(<<>>)]
    ELSE SummaryOf(ScoreColumn(scores_df))

generate_risk_summary(scores_df) ==
    IF scores_df = <<>> THEN EmptyDict
    ELSE SummaryOf(ScoreColumn(scores_df))

(***************************************************************************)
(* Strings that are searched are sequences of characters.                  *)
(***************************************************************************)
LowerChars == <<"a", "b", "c", "d", "e", "f", "g", "h", "i", "j", "k", "l", "m", "n", "o", "p", "q", "r", "s", "t", "u", "v", "w", "x", "y", "z">>
UpperChars == <<"A", "B", "C", "D", "E", "F", "G", "H", "I", "J", "K", "L", "M", "N", "O", "P", "Q", "R", "S", "T", "U", "V", "W", "X", "Y", "Z">>

CharIndex(chars, ch) == IF \E i \in DOMAIN chars : chars[i] = ch
                        THEN CHOOSE i \in DOMAIN chars : chars[i] = ch
                        ELSE 0

\* str.upper() and str.lower()
Upper(str) ==
    [i \in DOMAIN str |->
        IF CharIndex(LowerChars, str[i]) = 0 THEN str[i]
        ELSE UpperChars[CharIndex(LowerChars, str[i])]]

Lower(str) ==
    [i \in DOMAIN str |->
        IF CharIndex(UpperChars, str[i]) = 0 THEN str[i]
        ELSE LowerChars[CharIndex(UpperChars, str[i])]]

\* sub in str
Contains(str, sub) ==
    \E i \in 1..(Len(str) - Len(sub) + 1) : SubSeq(str, i, i + Len(sub) - 1) = sub

\* sub in str, ignoring case
ContainsNoCase(str, sub) == Contains(Lower(str), Lower(sub))

(***************************************************************************)
(* config.py: the keys of the market registries and the volatile assets    *)
(***************************************************************************)
COMPOUND_V2_MARKETS ==
    {<<"c", "D", "A", "I">>,
     <<"c", "U", "S", "D", "C">>,
     <<"c", "E", "T", "H">>,
     <<"c", "W", "B", "T", "C">>,
     <<"c", "U", "S", "D", "T">>,
     <<"c", "C", "O", "M", "P">>,
     <<"c", "U", "N", "I">>,
     <<"c", "L", "I", "N", "K">>,
     <<"c", "M", "K", "R">>,
     <<"c", "Y", "F", "I">>,
     <<"c", "B", "A", "T">>,
     <<"c", "Z", "R", "X">>,
     <<"c", "A", "A", "V", "E">>,
     <<"c", "S", "U", "S", "H", "I">>}

COMPOUND_V3_MARKETS ==
    {<<"U", "S", "D", "C">>,
     <<"W", "E", "T", "H">>,
     <<"W", "B", "T", "C">>,
     <<"L", "I", "N", "K">>,
     <<"U", "N", "I">>}

VOLATILE_ASSETS ==
    <<<<"W", "B", "T", "C">>,
     <<"E", "T", "H">>,
     <<"L", "I", "N", "K">>,
     <<"U", "N", "I">>,
     <<"M", "K", "R">>,
     <<"Y", "F", "I">>,
     <<"A", "A", "V", "E">>,
     <<"S", "U", "S", "H", "I">>>>

(***************************************************************************)
(* feature_extractor.py: FeatureExtractor                                  *)
(* A transaction is a record with wallet, market, topics, data and         *)
(* timestamp; transactions_df is the sequence of its rows.  Time is        *)
(* counted in ticks, TicksPerDay to the day.                               *)
(***************************************************************************)
TicksPerDay == 2

\* timedelta.days: whole days, rounded down
Days(ticks) == ticks \div TicksPerDay

\* Series.min() and Series.max() of the timestamp column
MinTimestamp(txs) == SeqMin([i \in DOMAIN txs |-> txs[i].timestamp])
MaxTimestamp(txs) == SeqMax([i \in DOMAIN txs |-> txs[i].timestamp])

\* a nullable timestamp: None, or the timestamp t
NoDate  == <<>>
Date(t) == <<t>>

_get_default_features(wallet_address) ==
    [wallet_id                 |-> wallet_address,
     total_transactions        |-> FromInt(0),
     first_transaction_date    |-> NoDate,
     last_transaction_date     |-> NoDate,
     days_since_last_activity  |-> FromInt(365),
     total_supplied_usd        |-> FromInt(0),
     total_borrowed_usd        |-> FromInt(0),
     supply_to_borrow_ratio    |-> FromInt(0),
     number_of_liquidations    |-> FromInt(0),
     repayment_frequency       |-> FromInt(0),
     volatile_asset_usage      |-> FromInt(0),
     protocol_version_usage    |-> "none",
     collateral_factor_average |-> FromInt(0),
     borrowing_behavior        |-> "none",
     health_factor_trend       |-> "stable"]

_calculate_inactivity_days(wallet_txs, current_time) ==
    IF wallet_txs = <<>> THEN 365
    ELSE Days(current_time - MaxTimestamp(wallet_txs))

\* market contains 'c', or is one of USDC, WETH, WBTC
IsSupplyEvent(tx) ==
    \/ Contains(tx.market, <<"c">>)
    \/ tx.market \in {<<"U", "S", "D", "C">>, <<"W", "E", "T", "H">>, <<"W", "B", "T", "C">>}

_calculate_total_supplied(wallet_txs) == Len(SelectSeq(wallet_txs, IsSupplyEvent)) * 1000

\* a slip: every row counted as a borrow event
BorrowedFromAllRows(wallet_txs) == Len(wallet_txs) * 500

_calculate_total_borrowed(wallet_txs) == Len(SelectSeq(wallet_txs, IsSupplyEvent)) * 500

\* keyword in the market label (any case) or in a topic of the topics list
MatchesKeyword(tx, keyword) ==
    \/ ContainsNoCase(tx.market, keyword)
    \/ \E t \in DOMAIN tx.topics : Contains(Lower(tx.topics[t]), keyword)

Liquidate == <<"l", "i", "q", "u", "i", "d", "a", "t", "e">>
Repay     == <<"r", "e", "p", "a", "y">>

IsLiquidation(tx) == MatchesKeyword(tx, Liquidate)
IsRepayment(tx)   == MatchesKeyword(tx, Repay)

_count_liquidations(wallet_txs) == Len(SelectSeq(wallet_txs, IsLiquidation))

\* a slip: the repayments are divided by the days of activity, not by the
\* 30-day months
RepaymentsPerDay(wallet_txs) ==
    LET repayment_events == SelectSeq(wallet_txs, IsRepayment)
        time_span == Days(MaxTimestamp(wallet_txs) - MinTimestamp(wallet_txs))
    IN  IF wallet_txs = <<>> THEN FromInt(0)
        ELSE IF repayment_events = <<>> THEN FromInt(0)
        ELSE IF time_span = 0 THEN FromInt(Len(repayment_events))
        ELSE FDiv(FromInt(Len(repayment_events)), FromInt(time_span))

_calculate_repayment_frequency(wallet_txs) ==
    LET repayment_events == SelectSeq(wallet_txs, IsRepayment)
        time_span == Days(MaxTimestamp(wallet_txs) - MinTimestamp(wallet_txs))
        months_active == FDiv(FromInt(time_span), FromInt(30))
    IN  IF wallet_txs = <<>> THEN FromInt(0)
        ELSE IF repayment_events = <<>> THEN FromInt(0)
        ELSE IF time_span = 0 THEN FromInt(Len(repayment_events))
        ELSE IF FGt(months_active, FromInt(0))
             THEN FDiv(FromInt(Len(repayment_events)), months_active)
        ELSE FromInt(0)

\* any volatile asset in str(market).upper()
IsVolatile(tx) ==
    \E a \in DOMAIN VOLATILE_ASSETS : Contains(Upper(tx.market), VOLATILE_ASSETS[a])

_calculate_volatile_asset_usage(wallet_txs) ==
    IF wallet_txs = <<>> THEN FromInt(0)
    ELSE FDiv(FromInt(Len(SelectSeq(wallet_txs, IsVolatile))), FromInt(Len(wallet_txs)))

IsV2(tx) == tx.market \in COMPOUND_V2_MARKETS
IsV3(tx) == tx.market \in COMPOUND_V3_MARKETS

_determine_protocol_version(wallet_txs) ==
    IF wallet_txs = <<>> THEN "none"
    ELSE IF Len(SelectSeq(wallet_txs, IsV3)) > Len(SelectSeq(wallet_txs, IsV2)) THEN "v3"
    ELSE IF Len(SelectSeq(wallet_txs, IsV2)) > 0 THEN "v2"
    ELSE "unknown"

\* the collateral_factors table, in its order: <<asset, factor in hundredths>>
CollateralFactors ==
    <<<<<<"U", "S", "D", "C">>, 85>>,
      <<<<"U", "S", "D", "T">>, 80>>,
      <<<<"D", "A", "I">>, 85>>,
      <<<<"E", "T", "H">>, 75>>,
      <<<<"W", "E", "T", "H">>, 75>>,
      <<<<"W", "B", "T", "C">>, 70>>,
      <<<<"L", "I", "N", "K">>, 65>>,
      <<<<"U", "N", "I">>, 60>>,
      <<<<"M", "K", "R">>, 55>>,
      <<<<"Y", "F", "I">>, 50>>,
      <<<<"A", "A", "V", "E">>, 55>>,
      <<<<"S", "U", "S", "H", "I">>, 50>>>>

\* the factors of the rows whose market names an asset of the table, the
\* first asset of the table that matches deciding
RECURSIVE MatchedFactors(_, _)
MatchedFactors(wallet_txs, i) ==
    IF i > Len(wallet_txs) THEN <<>>
    ELSE LET market  == Upper(wallet_txs[i].market)
             matches == {a \in DOMAIN CollateralFactors :
                            Contains(market, CollateralFactors[a][1])}
             first   == CHOOSE a \in matches : \A b \in matches : a <= b
         IN  (IF matches = {} THEN <<>> ELSE <<Dec(CollateralFactors[first][2], 100)>>)
                \o MatchedFactors(wallet_txs, i + 1)

\* total_factor += factor, from the int 0
RECURSIVE FloatSum(_, _, _)
FloatSum(xs, i, acc) ==
    IF i > Len(xs) THEN acc ELSE FloatSum(xs, i + 1, FAdd(acc, xs[i]))

_calculate_collateral_factor(wallet_txs) ==
    LET factors == MatchedFactors(wallet_txs, 1)
    IN  IF wallet_txs = <<>> THEN FromInt(0)
        ELSE IF Len(factors) > 0
             THEN FDiv(FloatSum(factors, 1, FromInt(0)), FromInt(Len(factors)))
        ELSE FromInt(0)

IsSupplyLabel(tx) ==
    ContainsNoCase(tx.market, <<"m", "i", "n", "t">>) \/ ContainsNoCase(tx.market, <<"s", "u", "p", "p", "l", "y">>)
IsBorrowLabel(tx) == ContainsNoCase(tx.market, <<"b", "o", "r", "r", "o", "w">>)
IsRepayLabel(tx)  == ContainsNoCase(tx.market, Repay)

_analyze_borrowing_behavior(wallet_txs) ==
    LET supply_count == Len(SelectSeq(wallet_txs, IsSupplyLabel))
        borrow_count == Len(SelectSeq(wallet_txs, IsBorrowLabel))
        repay_count  == Len(SelectSeq(wallet_txs, IsRepayLabel))
    IN  IF wallet_txs = <<>> THEN "none"
        ELSE IF borrow_count = 0 THEN "supplier_only"
        ELSE IF supply_count = 0 THEN "borrower_only"
        ELSE IF FGt(FDiv(FromInt(repay_count), FromInt(MaxOf(borrow_count, 1))), Dec(8, 10))
             THEN "responsible_borrower"
        ELSE "risky_borrower"

\* DataFrame.tail(n) and DataFrame.head(n)
TailRows(df, n) == SubSeq(df, MaxOf(1, Len(df) - n + 1), Len(df))
HeadRows(df, n) == SubSeq(df, 1, MinOf(n, Len(df)))

RecentWindow == 10

_calculate_health_factor_trend(wallet_txs) ==
    LET recent_txs == TailRows(wallet_txs, RecentWindow)
        older_txs  == HeadRows(wallet_txs, MaxOf(1, Len(wallet_txs) - RecentWindow))
        recent_volatility == _calculate_volatile_asset_usage(recent_txs)
        older_volatility  == _calculate_volatile_asset_usage(older_txs)
    IN  IF wallet_txs = <<>> THEN "unknown"
        ELSE IF FLt(recent_volatility, older_volatility) THEN "improving"
        ELSE IF FGt(recent_volatility, older_volatility) THEN "deteriorating"
        ELSE "stable"

\* the features dict built from the wallet's rows, with the ratio filled in
\* (the minimum and maximum of an empty timestamp column are null)
ComputedFeatures(wallet_txs, wallet_address, current_time) ==
    LET supplied == _calculate_total_supplied(wallet_txs)
        borrowed == _calculate_total_borrowed(wallet_txs)
    IN  [wallet_id                 |-> wallet_address,
         total_transactions        |-> FromInt(Len(wallet_txs)),
         first_transaction_date    |->
             IF wallet_txs = <<>> THEN NoDate ELSE Date(MinTimestamp(wallet_txs)),
         last_transaction_date     |->
             IF wallet_txs = <<>> THEN NoDate ELSE Date(MaxTimestamp(wallet_txs)),
         days_since_last_activity  |->
             FromInt(_calculate_inactivity_days(wallet_txs, current_time)),
         total_supplied_usd        |-> FromInt(supplied),
         total_borrowed_usd        |-> FromInt(borrowed),
         supply_to_borrow_ratio    |->
             IF supplied > 0 THEN FDiv(FromInt(borrowed), FromInt(supplied))
             ELSE FromInt(0),
         number_of_liquidations    |-> FromInt(_count_liquidations(wallet_txs)),
         repayment_frequency       |-> _calculate_repayment_frequency(wallet_txs),
         volatile_asset_usage      |-> _calculate_volatile_asset_usage(wallet_txs),
         protocol_version_usage    |-> _determine_protocol_version(wallet_txs),
         collateral_factor_average |-> _calculate_collateral_factor(wallet_txs),
         borrowing_behavior        |-> _analyze_borrowing_behavior(wallet_txs),
         health_factor_trend       |-> _calculate_health_factor_trend(wallet_txs)]

\* transactions_df[transactions_df['wallet'] == wallet_address]
WalletRows(transactions_df, wallet_address) ==
    SelectSeq(transactions_df, LAMBDA tx : tx.wallet = wallet_address)

\* a slip: the second emptiness test is lost, and a wallet none of whose
\* rows match goes through the calculations on an empty frame
ExtractWithoutEmptyTest(transactions_df, wallet_address, current_time) ==
    IF transactions_df = <<>> THEN _get_default_features(wallet_address)
    ELSE ComputedFeatures(WalletRows(transactions_df, wallet_address),
                          wallet_address, current_time)

\* current_time is what datetime.now() returns during the call
extract_wallet_features(transactions_df, wallet_address, current_time) ==
    LET wallet_txs == WalletRows(transactions_df, wallet_address)
    IN  IF transactions_df = <<>> THEN _get_default_features(wallet_address)
        ELSE IF wallet_txs = <<>> THEN _get_default_features(wallet_address)
        ELSE ComputedFeatures(wallet_txs, wallet_address, current_time)

\* A timestamp cell that is not a datetime (a string left in the column) is
\* written NotADatetime.
NotADatetime == -1
IsDatetime(ts) == ts # NotADatetime

\* extract_wallet_features raises TypeError when a row of the wallet has a
\* timestamp that is not a datetime: min() and max() compare it with the
\* datetimes of the other rows, and "current_time - last_activity" subtracts
\* it from a datetime.  Nothing in the function catches the exception.
ExtractRaises(transactions_df, wallet_address) ==
    \E i \in DOMAIN transactions_df :
        /\ transactions_df[i].wallet = wallet_address
        /\ ~IsDatetime(transactions_df[i].timestamp)

\* the positions of wallet_addresses that hold an address for the first time
RECURSIVE FirstOccurrences(_, _)
FirstOccurrences(wallet_addresses, i) ==
    IF i > Len(wallet_addresses) THEN <<>>
    ELSE (IF \E j \in 1..(i - 1) : wallet_addresses[j] = wallet_addresses[i]
          THEN <<>> ELSE <<i>>)
         \o FirstOccurrences(wallet_addresses, i + 1)

\* a slip: an address that was already seen is skipped
ExtractAllDistinct(transactions_df, wallet_addresses, times) ==
    [k \in DOMAIN FirstOccurrences(wallet_addresses, 1) |->
        extract_wallet_features(transactions_df,
                                wallet_addresses[FirstOccurrences(wallet_addresses, 1)[k]],
                                times[FirstOccurrences(wallet_addresses, 1)[k]])]

\* extract_all_wallet_features when no call raises; times[i] is what
\* datetime.now() returns during the i-th call
extract_all_wallet_features(transactions_df, wallet_addresses, times) ==
    [i \in DOMAIN wallet_addresses |->
        extract_wallet_features(transactions_df, wallet_addresses[i], times[i])]

\* the loop of extract_all_wallet_features has no handler either: the first
\* call that raises ends it
ExtractAllRaises(transactions_df, wallet_addresses) ==
    \E i \in DOMAIN wallet_addresses : ExtractRaises(transactions_df, wallet_addresses[i])

(***************************************************************************)
(* State                                                                   *)
(***************************************************************************)
VARIABLES
    pc,               \* position of the caller
    weights,          \* RiskScorer.weights
    features,         \* the feature record at hand
    risk_components,  \* calculate_risk_score's risk_components
    score,            \* the result of calculate_risk_score
    category,         \* the result of get_risk_category
    scaler,           \* RiskScorer.scaler
    scores_df,        \* the score records: the frame normalize_scores is given,
                      \* updates in place and returns
    raw_scores,       \* the score column as it was when normalize_scores was called
    transactions_df,  \* the collected transactions
    wallet_address,   \* the wallet whose features are extracted
    now,              \* the clock datetime.now() reads, in ticks
    wallet_addresses, \* the list extract_all_wallet_features is given
    features_df,      \* the result of extract_all_wallet_features
    summary,          \* the result of generate_risk_summary
    earlier           \* the earlier batches of the caller: what each call was
                      \* given and what it returned

vars == <<pc, weights, features, risk_components, score, category,
          scaler, scores_df, raw_scores, transactions_df, wallet_address, now,
          wallet_addresses, features_df, summary, earlier>>

scoreVars == <<features, risk_components, score, category>>
batchVars == <<scaler, scores_df, raw_scores>>
inputVars == <<transactions_df, wallet_address, now>>
pipeVars  == <<wallet_addresses, features_df, summary, earlier>>

\* the part of the state a caller that extracts nothing leaves as constructed
NothingCollected ==
    /\ transactions_df = <<>>
    /\ wallet_address = None
    /\ now = 0

\* the part of the state no batch call and no earlier call has touched
NothingRun ==
    /\ wallet_addresses = <<>>
    /\ features_df = None
    /\ summary = None
    /\ earlier = <<>>


(***************************************************************************)
(* Inputs of the scorer: feature records over the seven scored fields.    *)
(* Every branch of every step function has a value on its boundary and    *)
(* one just beyond it.                                                     *)
(***************************************************************************)
ScoredFields ==
    {"supply_to_borrow_ratio", "number_of_liquidations", "days_since_last_activity",
     "repayment_frequency", "volatile_asset_usage", "protocol_version_usage",
     "collateral_factor_average"}

ScenarioFeatures ==
    [supply_to_borrow_ratio    |-> Dec(2, 10),
     number_of_liquidations    |-> FromInt(0),
     days_since_last_activity  |-> FromInt(5),
     repayment_frequency       |-> Dec(25, 10),
     volatile_asset_usage      |-> Dec(5, 100),
     protocol_version_usage    |-> "v3",
     collateral_factor_average |-> Dec(85, 100)]

\* the scored fields of _get_default_features
DefaultScoredFeatures ==
    [supply_to_borrow_ratio    |-> FromInt(0),
     number_of_liquidations    |-> FromInt(0),
     days_since_last_activity  |-> FromInt(365),
     repayment_frequency       |-> FromInt(0),
     volatile_asset_usage      |-> FromInt(0),
     protocol_version_usage    |-> "none",
     collateral_factor_average |-> FromInt(0)]

BoundaryValues ==
    [supply_to_borrow_ratio    |->
        {FromInt(0), Dec(2, 10), Dec(3, 10), Dec(31, 100), Dec(5, 10), Dec(51, 100),
         Dec(7, 10), Dec(71, 100), Dec(9, 10), Dec(91, 100), FromInt(1000000000),
         FromInt(-1)},
     number_of_liquidations    |->
        {FromInt(0), FromInt(1), FromInt(2), FromInt(3), FromInt(5), FromInt(6),
         FromInt(1000000000)},
     days_since_last_activity  |->
        {FromInt(-1), FromInt(0), FromInt(5), FromInt(7), FromInt(8), FromInt(30),
         FromInt(31), FromInt(90), FromInt(91), FromInt(180), FromInt(181),
         FromInt(365)},
     repayment_frequency       |->
        {FromInt(-1), FromInt(0), Dec(1, 100), Dec(49, 100), Dec(5, 10), Dec(99, 100),
         FromInt(1), Dec(199, 100), FromInt(2), Dec(25, 10), FromInt(1000000000)},
     volatile_asset_usage      |->
        {FromInt(0), Dec(5, 100), Dec(1, 10), Dec(11, 100), Dec(3, 10), Dec(31, 100),
         Dec(5, 10), Dec(51, 100), Dec(7, 10), Dec(71, 100), FromInt(1)},
     protocol_version_usage    |-> {"v3", "v2", "none", "unknown", "V3"},
     collateral_factor_average |->
        {FromInt(0), Dec(39, 100), Dec(4, 10), Dec(59, 100), Dec(6, 10), Dec(79, 100),
         Dec(8, 10), Dec(85, 100), FromInt(1000000000)}]

\* values that between them reach every contribution of the two heaviest
\* components and the extreme and middle contributions of the others
BranchValues ==
    [supply_to_borrow_ratio    |->
        {Dec(2, 10), Dec(5, 10), Dec(7, 10), Dec(9, 10), FromInt(1000000000)},
     number_of_liquidations    |->
        {FromInt(0), FromInt(1), FromInt(2), FromInt(5), FromInt(6)},
     days_since_last_activity  |-> {FromInt(5), FromInt(90), FromInt(365)},
     repayment_frequency       |-> {FromInt(0), Dec(5, 10), Dec(25, 10)},
     volatile_asset_usage      |-> {Dec(5, 100), Dec(5, 10), FromInt(1)},
     protocol_version_usage    |-> {"v3", "v2", "none"},
     collateral_factor_average |->
        {FromInt(0), Dec(4, 10), Dec(6, 10), Dec(85, 100)}]

\* rec with field k set to v
WithField(rec, k, v) == [f \in DOMAIN rec |-> IF f = k THEN v ELSE rec[f]]

\* rec without the fields in ks
WithoutFields(rec, ks) == [f \in DOMAIN rec \ ks |-> rec[f]]

\* every combination of branches
BranchCombinations ==
    {[supply_to_borrow_ratio    |-> r,
      number_of_liquidations    |-> l,
      days_since_last_activity  |-> d,
      repayment_frequency       |-> q,
      volatile_asset_usage      |-> u,
      protocol_version_usage    |-> p,
      collateral_factor_average |-> c] :
        r \in BranchValues.supply_to_borrow_ratio,
        l \in BranchValues.number_of_liquidations,
        d \in BranchValues.days_since_last_activity,
        q \in BranchValues.repayment_frequency,
        u \in BranchValues.volatile_asset_usage,
        p \in BranchValues.protocol_version_usage,
        c \in BranchValues.collateral_factor_average}

\* base with one field moved over its boundary values
OneFieldVaried(base) ==
    UNION {{WithField(base, k, v) : v \in BoundaryValues[k]} : k \in ScoredFields}

\* base with any set of fields missing
FieldsMissing(base) == {WithoutFields(base, ks) : ks \in SUBSET ScoredFields}

FeatureInputs ==
    BranchCombinations
        \cup OneFieldVaried(ScenarioFeatures) \cup OneFieldVaried(DefaultScoredFeatures)
        \cup FieldsMissing(ScenarioFeatures)

(***************************************************************************)
(* Scoring one wallet: calculate_risk_score, then get_risk_category        *)
(***************************************************************************)
InitScore ==
    /\ pc = "start"
    /\ weights = RISK_WEIGHTS
    /\ features \in FeatureInputs
    /\ risk_components = None
    /\ score = None
    /\ category = None
    /\ scaler = UnfittedScaler
    /\ scores_df = <<>>
    /\ raw_scores = <<>>
    /\ NothingCollected
    /\ NothingRun

CalculateRiskScore ==
    /\ pc = "start"
    /\ LET components == RiskComponents(features)
       IN  /\ risk_components' = components
           /\ score' = FinalScore(components, weights)
    /\ pc' = "scored"
    /\ UNCHANGED <<weights, features, category, batchVars, inputVars, pipeVars>>

GetRiskCategory ==
    /\ pc = "scored"
    /\ category' = get_risk_category(score)
    /\ pc' = "categorized"
    /\ UNCHANGED <<weights, features, risk_components, score, batchVars, inputVars, pipeVars>>

NextScore == CalculateRiskScore \/ GetRiskCategory

SpecScore == InitScore /\ [][NextScore]_vars

(***************************************************************************)
(* Categorizing any score: get_risk_category on its own                    *)
(***************************************************************************)
ScoreMargin == 5

ScoreInputs == (0 - ScoreMargin)..(1000 + ScoreMargin)

InitCategory ==
    /\ pc = "scored"
    /\ weights = RISK_WEIGHTS
    /\ features = None
    /\ risk_components = None
    /\ score \in ScoreInputs
    /\ category = None
    /\ scaler = UnfittedScaler
    /\ scores_df = <<>>
    /\ raw_scores = <<>>
    /\ NothingCollected
    /\ NothingRun

NextCategory == GetRiskCategory

SpecCategory == InitCategory /\ [][NextCategory]_vars

(***************************************************************************)
(* Normalizing a batch of raw scores: normalize_scores                     *)
(***************************************************************************)
MaxBatch == 3

\* raw scores a batch is drawn from: the ends and the middle of the scale,
\* the scenario batch 200/500/800, and the least score calculate_risk_score
\* can return (430) with one 18 above it
BatchScoreValues == {0, 200, 430, 448, 500, 800, 1000}

Batches ==
    UNION {{[i \in 1..n |-> [wallet_id |-> i, score |-> col[i]]] :
                col \in [1..n -> BatchScoreValues]} : n \in 0..MaxBatch}

InitNorm ==
    /\ pc = "scored_all"
    /\ weights = RISK_WEIGHTS
    /\ features = None
    /\ risk_components = None
    /\ score = None
    /\ category = None
    /\ scaler = UnfittedScaler
    /\ scores_df \in Batches
    /\ raw_scores = <<>>
    /\ NothingCollected
    /\ NothingRun

\* normalize_scores, on the raw frame or once more on its own result
NormalizeScores ==
    /\ pc \in {"scored_all", "normalized"}
    /\ raw_scores' = ScoreColumn(scores_df)
    /\ IF scores_df = <<>>
       THEN UNCHANGED <<scaler, scores_df>>
       ELSE LET scores == ScoreColumn(scores_df)
                fit    == MinMaxFit(scores)
                normalized_scores == NormalizedColumn(fit, scores)
            IN  /\ scaler' = fit
                /\ scores_df' = [i \in DOMAIN scores_df |->
                                    [scores_df[i] EXCEPT !.score = normalized_scores[i]]]
    /\ pc' = IF pc = "scored_all" THEN "normalized" ELSE "normalized_again"
    /\ UNCHANGED <<weights, scoreVars, inputVars, pipeVars>>

\* generate_risk_summary, on the raw or on the normalized frame
GenerateRiskSummary ==
    /\ pc \in {"scored_all", "normalized"}
    /\ summary' = generate_risk_summary(scores_df)
    /\ pc' = "summarized"
    /\ UNCHANGED <<weights, scoreVars, batchVars, inputVars,
                   wallet_addresses, features_df, earlier>>

NextNorm == NormalizeScores \/ GenerateRiskSummary

SpecNorm == InitNorm /\ [][NextNorm]_vars

(***************************************************************************)
(* Extracting one wallet's features: extract_wallet_features               *)
(***************************************************************************)
MaxTxs == 3

HexTopic   == <<"0", "x", "a", "b">>
RepayTopic == <<"R", "e", "p", "a", "y", "B", "o", "r", "r", "o", "w">>
HexData    == <<"0", "x", "0", "0">>
\* a log payload that names a liquidation
LiquidateData == <<"L", "i", "q", "u", "i", "d", "a", "t", "e">>

\* what a transaction of wallet "w1" can be: a plain v2 market event, an
\* event labelled as a repayment, an event whose log names a repayment
TxKinds ==
    {[market |-> <<"c", "D", "A", "I">>, topics |-> <<HexTopic>>],
     [market |-> <<"R", "e", "p", "a", "y", "B", "o", "r", "r", "o", "w">>, topics |-> <<HexTopic>>],
     [market |-> <<"W", "E", "T", "H">>, topics |-> <<HexTopic, RepayTopic>>]}

\* tick 0, half a day later, and the 45th day
TxTimes == {0, 1, 45 * TicksPerDay}

\* the row of "w2" is stamped one tick after the clock of NowInputs
TxInputs ==
    {[wallet |-> "w1", market |-> k.market, topics |-> k.topics, data |-> HexData,
      timestamp |-> t] : k \in TxKinds, t \in TxTimes}
    \cup {[wallet |-> "w2", market |-> <<"c", "D", "A", "I">>, topics |-> <<HexTopic>>,
           data |-> LiquidateData, timestamp |-> 100 * TicksPerDay + 1]}

TxBatches == UNION {[1..n -> TxInputs] : n \in 0..MaxTxs}

\* the clock: the 100th day
NowInputs == {100 * TicksPerDay}

InitExtract ==
    /\ pc = "start"
    /\ weights = RISK_WEIGHTS
    /\ features = None
    /\ risk_components = None
    /\ score = None
    /\ category = None
    /\ scaler = UnfittedScaler
    /\ scores_df = <<>>
    /\ raw_scores = <<>>
    /\ transactions_df \in TxBatches
    /\ wallet_address \in {"w1", "w2"}
    /\ now \in NowInputs
    /\ NothingRun

ExtractWalletFeatures ==
    /\ pc = "start"
    /\ wallet_address # None
    /\ features' = extract_wallet_features(transactions_df, wallet_address, now)
    /\ pc' = "extracted"
    /\ UNCHANGED <<weights, risk_components, score, category, batchVars, inputVars, pipeVars>>

NextExtract == ExtractWalletFeatures

SpecExtract == InitExtract /\ [][NextExtract]_vars

(***************************************************************************)
(* The pipeline of main(): extract_all_wallet_features, score_all_wallets, *)
(* normalize_scores, and a caller that then runs another batch on the same *)
(* FeatureExtractor and RiskScorer                                         *)
(***************************************************************************)
MaxWallets == 2

\* rows in the collection of a pipeline run
MaxPipelineTxs == 1

\* "w3" has no transaction in any collection
Wallets == {"w1", "w2", "w3"}

WalletLists == UNION {[1..n -> Wallets] : n \in 0..MaxWallets}

\* a volatile v3 event of "w1", a plain event of "w2", and a row of "w2"
\* whose timestamp is not a datetime
PipelineTxInputs ==
    {[wallet |-> "w1", market |-> <<"W", "E", "T", "H">>, topics |-> <<HexTopic, RepayTopic>>,
      data |-> HexData, timestamp |-> 45 * TicksPerDay],
     [wallet |-> "w2", market |-> <<"c", "D", "A", "I">>, topics |-> <<HexTopic>>,
      data |-> HexData, timestamp |-> 1],
     [wallet |-> "w2", market |-> <<"c", "D", "A", "I">>, topics |-> <<HexTopic>>,
      data |-> HexData, timestamp |-> NotADatetime]}

PipelineTxBatches == UNION {[1..n -> PipelineTxInputs] : n \in 0..MaxPipelineTxs}

InitPipeline ==
    /\ pc = "loaded"
    /\ weights = RISK_WEIGHTS
    /\ features = None
    /\ risk_components = None
    /\ score = None
    /\ category = None
    /\ scaler = UnfittedScaler
    /\ scores_df = <<>>
    /\ raw_scores = <<>>
    /\ transactions_df \in PipelineTxBatches
    /\ wallet_address = None
    /\ now \in NowInputs
    /\ wallet_addresses \in WalletLists
    /\ features_df = None
    /\ summary = None
    /\ earlier = <<>>

\* what n successive reads of a clock at t return when a day may end
\* between two of them; the run is followed over one such day
ClockReads(t, n) ==
    IF t \in NowInputs
    THEN {[i \in 1..n |-> IF i >= k THEN t + TicksPerDay ELSE t] : k \in 1..(n + 1)}
    ELSE {[i \in 1..n |-> t]}

\* the clock as the run last saw it: _calculate_inactivity_days reads it
\* for a wallet with rows only
LastRead(df, list, times, t) ==
    LET reads == {i \in DOMAIN list : WalletRows(df, list[i]) # <<>>}
    IN  IF reads = {} THEN t
        ELSE times[CHOOSE i \in reads : \A j \in reads : j <= i]

TypeError == "TypeError"

ExtractAllWalletFeatures ==
    /\ pc = "loaded"
    /\ IF ExtractAllRaises(transactions_df, wallet_addresses)
       THEN /\ features_df' = TypeError
            /\ pc' = "raised"
            /\ now' = now
       ELSE \E times \in ClockReads(now, Len(wallet_addresses)) :
            /\ features_df' = extract_all_wallet_features(transactions_df, wallet_addresses, times)
            /\ pc' = "extracted_all"
            /\ now' = LastRead(transactions_df, wallet_addresses, times, now)
    /\ UNCHANGED <<weights, scoreVars, batchVars, transactions_df, wallet_address,
                   wallet_addresses, summary, earlier>>

ScoreAllWallets ==
    /\ pc = "extracted_all"
    /\ scores_df' = score_all_wallets(features_df, weights)
    /\ pc' = "scored_all"
    /\ UNCHANGED <<weights, scoreVars, scaler, raw_scores, inputVars, pipeVars>>

\* transactions_df without the rows of wallet w
WithoutWallet(df, w) == SelectSeq(df, LAMBDA tx : tx.wallet # w)

\* the next batch of a caller: the list without its last address, or the
\* same list over a collection that lost the rows of one wallet
LaterInputs(df, list) ==
    {<<df, SubSeq(list, 1, Len(list) - 1)>> : n \in {Len(list)} \ {0}}
        \cup {<<WithoutWallet(df, w), list>> : w \in {df[i].wallet : i \in DOMAIN df}}

\* the caller is followed through one earlier batch
AnotherBatch ==
    /\ pc = "normalized"
    /\ earlier = <<>>
    /\ earlier' = Append(earlier, [transactions_df  |-> transactions_df,
                                   wallet_addresses |-> wallet_addresses,
                                   features_df      |-> features_df,
                                   raw_scores       |-> raw_scores,
                                   scores_df        |-> scores_df])
    /\ \E inputs \in LaterInputs(transactions_df, wallet_addresses) :
        /\ transactions_df' = inputs[1]
        /\ wallet_addresses' = inputs[2]
    /\ features_df' = None
    /\ scores_df' = <<>>
    /\ raw_scores' = <<>>
    /\ pc' = "loaded"
    /\ UNCHANGED <<weights, scoreVars, scaler, wallet_address, now, summary>>

NextPipeline ==
    \/ ExtractAllWalletFeatures
    \/ ScoreAllWallets
    \/ NormalizeScores
    \/ AnotherBatch

SpecPipeline == InitPipeline /\ [][NextPipeline]_vars

(***************************************************************************)
(* Properties of the scorer                                                *)
(***************************************************************************)
Scored == pc \in {"scored", "categorized"}

\* C1: whatever the feature record (extreme values such as a ratio of 1e9,
\* missing fields), calculate_risk_score returns an integer in [0, 1000].
C1_ScoreInRange == Scored => score \in 0..1000

C1_Witness ==
    /\ pc = "scored"
    /\ "supply_to_borrow_ratio" \in DOMAIN features
    /\ features.supply_to_borrow_ratio = FromInt(1000000000)
    /\ score \in 0..1000

\* the default weights of the specification, in hundredths
SpecWeightPercent ==
    [borrow_supply_ratio  |-> 25,
     liquidation_count    |-> 20,
     inactivity_days      |-> 15,
     repayment_frequency  |-> 15,
     volatile_asset_usage |-> 10,
     protocol_version     |-> 10,
     collateral_factor    |-> 5]

RECURSIVE SumOver(_, _)
SumOver(f, ks) ==
    IF ks = {} THEN 0
    ELSE LET k == CHOOSE x \in ks : TRUE IN f[k] + SumOver(f, ks \ {k})

\* 100 * (500 + sum of contribution * weight), in exact arithmetic
ExactFinalPercent(components) ==
    50000 + SumOver([k \in DOMAIN components |-> components[k] * SpecWeightPercent[k]],
                    DOMAIN components)

\* trunc(clamp(x, 0, 1000)) of x given in hundredths
ExactScore(components) ==
    MaxOf(0, MinOf(100000, ExactFinalPercent(components))) \div 100

ScenarioContributions ==
    [borrow_supply_ratio  |-> 100,
     liquidation_count    |-> 50,
     inactivity_days      |-> 50,
     repayment_frequency  |-> 50,
     volatile_asset_usage |-> 50,
     protocol_version     |-> 25,
     collateral_factor    |-> 25]

\* C2: the score is trunc(clamp(500 + sum of contribution * weight, 0, 1000))
\* with the default weights; the scenario record has contributions
\* {100,50,50,50,50,25,25}, weighted sum 58.75 and score 558.
C2_ScoreIsWeightedSum ==
    Scored =>
        /\ score = ExactScore(risk_components)
        /\ features = ScenarioFeatures =>
             /\ risk_components = ScenarioContributions
             /\ ExactFinalPercent(risk_components) = 50000 + 5875
             /\ FEq(WeightedScore(risk_components, weights), Dec(5875, 100))
             /\ score = 558

C2_Witness == pc = "scored" /\ features = ScenarioFeatures /\ score = 558

\* C3 as stated: the scenario wallet (raw score 558) is categorized "Low Risk".
C3_ScenarioLowRisk ==
    (pc = "categorized" /\ features = ScenarioFeatures) => category = "Low Risk"

\* C3 amended: the scenario wallet (raw score 558) is categorized
\* "Moderate Risk", 558 lying in 400..599.
C3_ScenarioModerateRisk ==
    (pc = "categorized" /\ features = ScenarioFeatures) =>
        score = 558 /\ category = "Moderate Risk"

C3_Witness == pc = "categorized" /\ features = ScenarioFeatures /\ score = 558

Labels == {"Very Low Risk", "Low Risk", "Moderate Risk", "High Risk", "Very High Risk"}

\* the label ranges of the specification
LabelFits(label, s) ==
    \/ label = "Very Low Risk"  /\ s >= 800
    \/ label = "Low Risk"       /\ s \in 600..799
    \/ label = "Moderate Risk"  /\ s \in 400..599
    \/ label = "High Risk"      /\ s \in 200..399
    \/ label = "Very High Risk" /\ s < 200

\* C7: get_risk_category is exact at every threshold (>= 800 Very Low,
\* 600..799 Low, 400..599 Moderate, 200..399 High, below 200 Very High);
\* 800, 799 and 0 get "Very Low Risk", "Low Risk" and "Very High Risk", and
\* every integer score gets exactly one label.
C7_CategoryExact ==
    pc = "categorized" =>
        /\ category \in Labels
        /\ LabelFits(category, score)
        /\ Cardinality({l \in Labels : LabelFits(l, score)}) = 1
        /\ score = 800 => category = "Very Low Risk"
        /\ score = 799 => category = "Low Risk"
        /\ score = 0 => category = "Very High Risk"

C7_Witness == pc = "categorized" /\ score = 800 /\ category = "Very Low Risk"

\* the threshold table of the specification for one component: rows
\* <<bound, contribution>> tried in order, and the contribution when no row
\* applies; a row applies when the value is on the row's side of the bound
RECURSIVE StepFrom(_, _, _, _, _)
StepFrom(v, rows, i, upTo, otherwise) ==
    IF i > Len(rows) THEN otherwise
    ELSE IF (upTo /\ FLe(v, rows[i][1])) \/ (~upTo /\ FGe(v, rows[i][1]))
         THEN rows[i][2]
    ELSE StepFrom(v, rows, i + 1, upTo, otherwise)

TableContribution(field, v) ==
    CASE field = "supply_to_borrow_ratio" ->
            IF FEq(v, FromInt(0)) THEN 0
            ELSE StepFrom(v, <<<<Dec(3, 10), 100>>, <<Dec(5, 10), 50>>, <<Dec(7, 10), 0>>,
                               <<Dec(9, 10), -50>>>>, 1, TRUE, -100)
      [] field = "number_of_liquidations" ->
            IF FEq(v, FromInt(0)) THEN 50
            ELSE IF FEq(v, FromInt(1)) THEN -25
            ELSE IF FEq(v, FromInt(2)) THEN -50
            ELSE StepFrom(v, <<<<FromInt(5), -75>>>>, 1, TRUE, -100)
      [] field = "days_since_last_activity" ->
            StepFrom(v, <<<<FromInt(7), 50>>, <<FromInt(30), 25>>, <<FromInt(90), 0>>,
                          <<FromInt(180), -25>>>>, 1, TRUE, -50)
      [] field = "repayment_frequency" ->
            IF FLe(v, FromInt(0)) THEN -50
            ELSE StepFrom(v, <<<<Dec(20, 10), 50>>, <<Dec(10, 10), 25>>, <<Dec(5, 10), 0>>>>,
                          1, FALSE, -25)
      [] field = "volatile_asset_usage" ->
            StepFrom(v, <<<<Dec(1, 10), 50>>, <<Dec(3, 10), 25>>, <<Dec(5, 10), 0>>,
                          <<Dec(7, 10), -25>>>>, 1, TRUE, -50)
      [] field = "protocol_version_usage" ->
            IF v = "v3" THEN 25 ELSE IF v = "none" THEN -25 ELSE 0
      [] field = "collateral_factor_average" ->
            StepFrom(v, <<<<Dec(8, 10), 25>>, <<Dec(6, 10), 0>>, <<Dec(4, 10), -25>>>>,
                     1, FALSE, -50)

ComponentOf ==
    [supply_to_borrow_ratio    |-> "borrow_supply_ratio",
     number_of_liquidations    |-> "liquidation_count",
     days_since_last_activity  |-> "inactivity_days",
     repayment_frequency       |-> "repayment_frequency",
     volatile_asset_usage      |-> "volatile_asset_usage",
     protocol_version_usage    |-> "protocol_version",
     collateral_factor_average |-> "collateral_factor"]

\* C10: each of the seven component functions returns the contribution the
\* threshold table gives for its input value, boundaries included.
C10_ComponentsFollowTable ==
    Scored =>
        \A field \in DOMAIN features \cap ScoredFields :
            risk_components[ComponentOf[field]] = TableContribution(field, features[field])

\* a ratio exactly on the 0.3 threshold has been scored
C10_Witness ==
    /\ pc = "scored"
    /\ DOMAIN features = ScoredFields
    /\ features.supply_to_borrow_ratio = Dec(3, 10)
    /\ risk_components.borrow_supply_ratio = 100

(***************************************************************************)
(* Properties of normalize_scores                                          *)
(***************************************************************************)
Normalized == pc = "normalized" /\ raw_scores # <<>>

BatchMin == SeqMin(raw_scores)
BatchMax == SeqMax(raw_scores)

\* C4 as stated: when min < max every score s becomes
\* trunc((s - min) * 1000 / (max - min)), so the batch minimum becomes 0 and
\* the batch maximum 1000, and [200, 500, 800] becomes [0, 500, 1000].
C4_MinMaxRescale ==
    (Normalized /\ BatchMin < BatchMax) =>
        /\ \A i \in DOMAIN scores_df :
              /\ scores_df[i].score =
                    ((raw_scores[i] - BatchMin) * 1000) \div (BatchMax - BatchMin)
              /\ raw_scores[i] = BatchMin => scores_df[i].score = 0
              /\ raw_scores[i] = BatchMax => scores_df[i].score = 1000
        /\ raw_scores = <<200, 500, 800>> => ScoreColumn(scores_df) = <<0, 500, 1000>>

\* C5 as stated: when all raw scores of a non-empty batch are equal, every
\* score becomes 500.
C5_DegenerateIs500 ==
    (Normalized /\ BatchMin = BatchMax) =>
        \A i \in DOMAIN scores_df : scores_df[i].score = 500

\* C6: after normalize_scores every score of the batch is an integer in
\* [0, 1000], degenerate and single-wallet batches included.
C6_NormalizedInRange ==
    pc = "normalized" => \A i \in DOMAIN scores_df : scores_df[i].score \in 0..1000

\* a batch whose maximum does not come out as exactly 1000 has been normalized
C6_Witness ==
    /\ pc = "normalized"
    /\ raw_scores = <<430, 448>>
    /\ \A i \in DOMAIN scores_df : scores_df[i].score \in 0..1000

(***************************************************************************)
(* Properties of the feature extractor                                     *)
(***************************************************************************)
\* the rows of the collection that belong to the wallet, by position
OwnRows == {i \in DOMAIN transactions_df : transactions_df[i].wallet = wallet_address}

\* C8: a wallet with no matching transaction (empty collection, or no row
\* with its address) gets exactly the default record: no transactions, null
\* first and last dates, 365 days of inactivity, zero amounts, ratios and
\* counts, protocol "none", behaviour "none", trend "stable".
C8_DefaultRecord ==
    (pc = "extracted" /\ OwnRows = {}) =>
        /\ DOMAIN features =
              {"wallet_id", "total_transactions", "first_transaction_date",
               "last_transaction_date", "days_since_last_activity", "total_supplied_usd",
               "total_borrowed_usd", "supply_to_borrow_ratio", "number_of_liquidations",
               "repayment_frequency", "volatile_asset_usage", "protocol_version_usage",
               "collateral_factor_average", "borrowing_behavior", "health_factor_trend"}
        /\ features.wallet_id = wallet_address
        /\ features.first_transaction_date = NoDate
        /\ features.last_transaction_date = NoDate
        /\ FEq(features.days_since_last_activity, FromInt(365))
        /\ \A k \in {"total_transactions", "total_supplied_usd", "total_borrowed_usd",
                     "supply_to_borrow_ratio", "number_of_liquidations",
                     "repayment_frequency", "volatile_asset_usage",
                     "collateral_factor_average"} : FEq(features[k], FromInt(0))
        /\ features.protocol_version_usage = "none"
        /\ features.borrowing_behavior = "none"
        /\ features.health_factor_trend = "stable"

\* a wallet was extracted from a collection that holds only other wallets' rows
C8_Witness ==
    /\ pc = "extracted"
    /\ transactions_df # <<>>
    /\ OwnRows = {}
    /\ features.health_factor_trend = "stable"

\* the wallet's rows that match the repayment keyword, by position
RepaymentRows ==
    {i \in OwnRows :
        \/ ContainsNoCase(transactions_df[i].market, Repay)
        \/ \E t \in DOMAIN transactions_df[i].topics :
              ContainsNoCase(transactions_df[i].topics[t], Repay)}

\* whole days between the wallet's earliest and latest transaction
SpanDays ==
    LET latest   == CHOOSE i \in OwnRows : \A j \in OwnRows :
                        transactions_df[j].timestamp <= transactions_df[i].timestamp
        earliest == CHOOSE i \in OwnRows : \A j \in OwnRows :
                        transactions_df[i].timestamp <= transactions_df[j].timestamp
    IN  (transactions_df[latest].timestamp - transactions_df[earliest].timestamp)
            \div TicksPerDay

\* C9: repayment_frequency is (repayment matches) / (span / 30), span the
\* whole days from the wallet's earliest to its latest transaction; the raw
\* count when the span is 0 (3 matches, zero days: exactly 3); 0 without
\* repayment matches.
C9_RepaymentFrequency ==
    (pc = "extracted" /\ OwnRows # {}) =>
        LET count == Cardinality(RepaymentRows)
        IN  /\ count = 0 => FEq(features.repayment_frequency, FromInt(0))
            /\ (count > 0 /\ SpanDays = 0) =>
                  FEq(features.repayment_frequency, FromInt(count))
            /\ (count > 0 /\ SpanDays > 0) =>
                  /\ features.repayment_frequency =
                        FDiv(FromInt(count), FDiv(FromInt(SpanDays), FromInt(30)))
                  \* the same quotient in exact arithmetic, where it is a whole number
                  /\ (count * 30) % SpanDays = 0 =>
                        FEq(features.repayment_frequency,
                            FromInt((count * 30) \div SpanDays))
            /\ (count = 3 /\ SpanDays = 0) =>
                  FEq(features.repayment_frequency, FromInt(3))

\* three repayments inside one day
C9_Witness ==
    /\ pc = "extracted"
    /\ Cardinality(OwnRows) = 3
    /\ Cardinality(RepaymentRows) = 3
    /\ SpanDays = 0
    /\ FEq(features.repayment_frequency, FromInt(3))

(***************************************************************************)
(* Properties of the batch calls                                           *)
(***************************************************************************)
\* extract_all_wallet_features has returned a frame
ExtractedAll == pc \in {"extracted_all", "scored_all", "normalized"}

\* the feature record at position i is a record extract_wallet_features
\* returns for the i-th address, at a reading of the clock of this batch
OwnFeatureRecord(i) ==
    \/ features_df[i] = extract_wallet_features(transactions_df, wallet_addresses[i], now)
    \/ features_df[i] = extract_wallet_features(transactions_df, wallet_addresses[i],
                                                now - TicksPerDay)

\* C11: for any list of addresses (duplicates and wallets without
\* transactions included) the pipeline yields one score record per address,
\* in the order of the list, each with that address for wallet_id and the
\* score calculated from that wallet's own feature record (after
\* normalize_scores: that score rescaled with the batch).
C11_OneRecordPerAddress ==
    /\ ExtractedAll =>
          /\ Len(features_df) = Len(wallet_addresses)
          /\ \A i \in DOMAIN wallet_addresses :
                /\ features_df[i].wallet_id = wallet_addresses[i]
                /\ OwnFeatureRecord(i)
    /\ pc \in {"scored_all", "normalized"} =>
          /\ Len(scores_df) = Len(wallet_addresses)
          /\ \A i \in DOMAIN wallet_addresses :
                scores_df[i].wallet_id = wallet_addresses[i]
    /\ pc = "scored_all" =>
          \A i \in DOMAIN wallet_addresses :
              scores_df[i].score = calculate_risk_score(features_df[i], RISK_WEIGHTS)
    /\ pc = "normalized" =>
          /\ Len(raw_scores) = Len(wallet_addresses)
          /\ \A i \in DOMAIN wallet_addresses :
                raw_scores[i] = calculate_risk_score(features_df[i], RISK_WEIGHTS)
          /\ wallet_addresses # <<>> =>
                ScoreColumn(scores_df) = NormalizedColumn(MinMaxFit(raw_scores), raw_scores)

\* a list that names a wallet twice, and a wallet without transactions, has
\* gone through the pipeline over a collection that is not empty
C11_Witness ==
    /\ pc = "normalized"
    /\ transactions_df # <<>>
    /\ wallet_addresses = <<"w3", "w3">>
    /\ Len(scores_df) = 2
    /\ scores_df[1].wallet_id = "w3" /\ scores_df[2].wallet_id = "w3"

RiskLabels ==
    {"Very Low Risk", "Low Risk", "Moderate Risk", "High Risk", "Very High Risk"}

\* how many scores of the frame get_risk_category maps to the label
CategoryCount(label) ==
    Cardinality({i \in DOMAIN scores_df : get_risk_category(scores_df[i].score) = label})

Summarized == pc = "summarized"

\* C12: for a non-empty batch the count of each bucket of the summary is
\* the number of scores get_risk_category gives that label, the five counts
\* add up to total_wallets, and min_score and max_score are the least and
\* the greatest score of the batch.
C12_SummaryBuckets ==
    (Summarized /\ scores_df # <<>>) =>
        /\ DOMAIN summary.risk_distribution = RiskLabels
        /\ \A l \in RiskLabels : summary.risk_distribution[l] = CategoryCount(l)
        /\ summary.risk_distribution["Very Low Risk"] + summary.risk_distribution["Low Risk"]
             + summary.risk_distribution["Moderate Risk"] + summary.risk_distribution["High Risk"]
             + summary.risk_distribution["Very High Risk"] = summary.total_wallets
        /\ summary.total_wallets = Len(scores_df)
        /\ \A i \in DOMAIN scores_df :
              summary.min_score <= scores_df[i].score /\ scores_df[i].score <= summary.max_score
        /\ \E i \in DOMAIN scores_df : summary.min_score = scores_df[i].score
        /\ \E i \in DOMAIN scores_df : summary.max_score = scores_df[i].score

\* a summarized batch with a score on the threshold 800 and one on 200
C12_Witness ==
    /\ Summarized
    /\ \E i \in DOMAIN scores_df : scores_df[i].score = 800
    /\ \E i \in DOMAIN scores_df : scores_df[i].score = 200
    /\ summary.risk_distribution["Very Low Risk"] >= 1
    /\ summary.risk_distribution["High Risk"] >= 1

\* C13: on an empty batch normalize_scores returns the empty batch and
\* generate_risk_summary returns the empty dict; neither fails.
C13_EmptyBatch ==
    /\ (pc = "normalized" /\ raw_scores = <<>>) => scores_df = <<>>
    /\ (Summarized /\ scores_df = <<>>) => DOMAIN summary = {}

\* the empty batch has been normalized and summarized
C13_Witness ==
    /\ Summarized
    /\ scores_df = <<>>
    /\ raw_scores = <<>>
    /\ DOMAIN summary = {}

\* C14 as stated: after normalize_scores the records that were passed in
\* still hold their raw scores.
C14_InputNotMutated ==
    pc = "normalized" => ScoreColumn(scores_df) = raw_scores

\* C15 as stated: whatever was called, the fields of the RiskScorer are as
\* __init__ left them.
C15_FieldsAsConstructed ==
    /\ weights = RISK_WEIGHTS
    /\ scaler = UnfittedScaler

(***************************************************************************)
(* Properties of the trend and of the liquidation count                    *)
(***************************************************************************)
RECURSIVE InsertByTimestamp(_, _)
\* the row put into rows that ascend by timestamp, after the rows of its
\* own timestamp
InsertByTimestamp(tx, sorted) ==
    IF sorted = <<>> THEN <<tx>>
    ELSE IF tx.timestamp < Head(sorted).timestamp THEN <<tx>> \o sorted
    ELSE <<Head(sorted)>> \o InsertByTimestamp(tx, Tail(sorted))

RECURSIVE AscendingByTimestamp(_, _)
\* the first n rows in ascending order of timestamp
AscendingByTimestamp(rows, n) ==
    IF n = 0 THEN <<>>
    ELSE InsertByTimestamp(rows[n], AscendingByTimestamp(rows, n - 1))

OwnRowsAscending ==
    LET rows == WalletRows(transactions_df, wallet_address)
    IN  AscendingByTimestamp(rows, Len(rows))

\* C19 as stated: whatever the order of the wallet's rows in the input, the
\* trend compares the 10 rows latest by timestamp with the earlier ones.
C19_TrendOverMostRecent ==
    (pc = "extracted" /\ OwnRows # {}) =>
        features.health_factor_trend = _calculate_health_factor_trend(OwnRowsAscending)

\* the row's market label, one of its topics, or its data names the keyword
NamesLiquidation(tx) ==
    \/ ContainsNoCase(tx.market, Liquidate)
    \/ \E t \in DOMAIN tx.topics : ContainsNoCase(tx.topics[t], Liquidate)
    \/ ContainsNoCase(tx.data, Liquidate)

\* C20 as stated: number_of_liquidations counts the wallet's rows whose
\* market label, topics or data contain the keyword in any case.
C20_CountsLogPayload ==
    (pc = "extracted" /\ OwnRows # {}) =>
        FEq(features.number_of_liquidations,
            FromInt(Cardinality({i \in OwnRows : NamesLiquidation(transactions_df[i])})))

(***************************************************************************)
(* Properties across calls and across batches                              *)
(***************************************************************************)
\* C16 as stated: two calls of extract_wallet_features for a wallet whose
\* rows are the same in both collections return the same record, be they
\* two calls of one batch or calls of two batches.
C16_PureFunctionOfSubset ==
    ExtractedAll =>
        /\ \A i, j \in DOMAIN features_df :
              wallet_addresses[i] = wallet_addresses[j] => features_df[i] = features_df[j]
        /\ \A k \in DOMAIN earlier :
              \A i \in DOMAIN earlier[k].features_df, j \in DOMAIN features_df :
                  (/\ earlier[k].wallet_addresses[i] = wallet_addresses[j]
                   /\ WalletRows(earlier[k].transactions_df, wallet_addresses[j])
                        = WalletRows(transactions_df, wallet_addresses[j]))
                  => earlier[k].features_df[i] = features_df[j]

\* C17 as stated: whatever the rows hold, extract_all_wallet_features does
\* not end in an exception.
C17_NeverRaises == pc # "raised"

\* C18: the final score is anchored to the batch: in every normalized batch
\* the wallets with the least raw score of the batch get 0, and when one
\* feature record has different final scores in two batches, the two
\* batches differ in their least or in their greatest raw score.
C18_AnchoredToBatch ==
    Normalized =>
        /\ \A i \in DOMAIN raw_scores :
              raw_scores[i] = BatchMin => scores_df[i].score = 0
        /\ \A k \in DOMAIN earlier :
              \A i \in DOMAIN earlier[k].features_df, j \in DOMAIN features_df :
                  (/\ earlier[k].features_df[i] = features_df[j]
                   /\ earlier[k].scores_df[i].score # scores_df[j].score)
                  => <<SeqMin(earlier[k].raw_scores), SeqMax(earlier[k].raw_scores)>>
                       # <<BatchMin, BatchMax>>

\* one wallet with one feature record and one raw score, and two final
\* scores in two batches
C18_Witness ==
    /\ Normalized
    /\ \E k \in DOMAIN earlier :
          \E i \in DOMAIN earlier[k].features_df, j \in DOMAIN features_df :
              /\ earlier[k].features_df[i] = features_df[j]
              /\ earlier[k].raw_scores[i] = raw_scores[j]
              /\ earlier[k].scores_df[i].score # scores_df[j].score

(***************************************************************************)
(* Properties of the ranges of the features and of the raw score           *)
(***************************************************************************)
\* C21 as stated: days_since_last_activity is never negative, whatever the
\* timestamps; it is 365 for a wallet without rows and the whole days from
\* the latest timestamp to now otherwise.
C21_InactivityNonNegative ==
    pc = "extracted" =>
        /\ FGe(features.days_since_last_activity, FromInt(0))
        /\ OwnRows = {} => FEq(features.days_since_last_activity, FromInt(365))
        /\ \A i \in OwnRows :
              (\A j \in OwnRows : transactions_df[j].timestamp <= transactions_df[i].timestamp)
              => \/ transactions_df[i].timestamp > now
                 \/ FEq(features.days_since_last_activity,
                        FromInt((now - transactions_df[i].timestamp) \div TicksPerDay))

\* the final score before the clamp: 500 + the weighted sum
UnclampedScore == FAdd(FromInt(500), WeightedScore(risk_components, weights))

\* C22: with the default weights every feature record scores in 430..558,
\* the clamp leaves the score as it is, and the category of the raw score
\* is "Moderate Risk".
C22_RawScoreBand ==
    Scored =>
        /\ score \in 430..558
        /\ FEq(Clamp(UnclampedScore), UnclampedScore)
        /\ get_risk_category(score) = "Moderate Risk"
        /\ pc = "categorized" => category = "Moderate Risk"

\* the least score of the band has been returned and categorized
C22_Witness ==
    /\ pc = "categorized"
    /\ score = 430
    /\ category = "Moderate Risk"

\* C23: total_borrowed_usd is half of total_supplied_usd, the ratio is 0
\* (nothing supplied) or 0.5, and the ratio component is 0 or 50.
C23_BorrowedIsHalf ==
    pc = "extracted" =>
        /\ FEq(FMul(features.total_borrowed_usd, FromInt(2)), features.total_supplied_usd)
        /\ IF FEq(features.total_supplied_usd, FromInt(0))
           THEN /\ FEq(features.supply_to_borrow_ratio, FromInt(0))
                /\ _score_borrow_supply_ratio(features) = 0
           ELSE /\ FEq(features.supply_to_borrow_ratio, Dec(5, 10))
                /\ _score_borrow_supply_ratio(features) = 50

\* a wallet with a supply-side row and a row that is none
C23_Witness ==
    /\ pc = "extracted"
    /\ FEq(features.total_supplied_usd, FromInt(1000))
    /\ FEq(features.total_borrowed_usd, FromInt(500))
    /\ Cardinality(OwnRows) = 2
    /\ FEq(features.supply_to_borrow_ratio, Dec(5, 10))

(***************************************************************************)
(* Properties of normalizing twice                                         *)
(***************************************************************************)
\* C24 as stated: normalize_scores applied to its own result of a
\* non-empty batch returns every score as it was.
C24_NormalizeIdempotent ==
    (pc = "normalized_again" /\ raw_scores # <<>>) => ScoreColumn(scores_df) = raw_scores

====
